---- MODULE Spec2Model ----
(***************************************************************************)
(* Model of src/backend/utils.rs: humanize_time (relative-time labels) and *)
(* b64_to_img_data (Base64 image to RGBA8 pixel buffer).                   *)
(*                                                                         *)
(* Time is counted in whole seconds since the Unix epoch (UTC).  The wall  *)
(* clock is part of the environment: it advances between calls and also    *)
(* between the two reads humanize_time makes of it (Utc::now() at line 27, *)
(* Local::now() at line 39).                                               *)
(***************************************************************************)
EXTENDS Integers, Sequences, FiniteSets, TLC

VARIABLES clock, offset, timestamp, pc, now, local_now, label, rule, prev, ticks

\* b64_to_img_data: the argument, the position in the body, the locals, the
\* returned ImageData, the panic payload, and which library calls were made.
VARIABLES content, input_kind, ipc, image_bytes, dynamic_image, pixels,
          image_data, panic, called

timeVars == <<clock, offset, timestamp, pc, now, local_now, label, rule, prev, ticks>>

imgVars == <<content, input_kind, ipc, image_bytes, dynamic_image, pixels,
             image_data, panic, called>>

vars == <<timeVars, imgVars>>

(* ------------------------------ bounds --------------------------------- *)

\* Number of times the wall clock advances in one behaviour.
MaxTicks == 4

\* Largest width and height of the images encoded as inputs.
MaxDim == 2

\* Day number (days since 1970-01-01) of the local date of the timestamp:
\* 19779 is Monday 2024-02-26, so ten days on cross 29 February and a month end.
BaseDay == 19779

SecsPerMin == 60
SecsPerHour == 60 * SecsPerMin
SecsPerDay == 24 * SecsPerHour

\* Local UTC offsets (seconds east of Greenwich) the process may run under.
Offsets == {0 - 5 * SecsPerHour, 0, 8 * SecsPerHour}

\* Local times of day of the timestamps: midnight, 14:05:00, 23:59:59.
TsTimes == {0, 14 * SecsPerHour + 5 * SecsPerMin, SecsPerDay - 1}

\* How far the timestamp may lie ahead of the clock when the run starts.
Leads == {0, 61}

\* Amounts by which the wall clock advances.
Steps == {1, SecsPerMin, 59 * SecsPerMin, SecsPerDay - 1, 6 * SecsPerDay}

(* --------------------- chrono: durations and dates --------------------- *)

\* Rust integer division: truncates toward zero.
TruncDiv(a, b) == IF a >= 0 THEN a \div b ELSE 0 - ((0 - a) \div b)

\* now.signed_duration_since(timestamp)
signed_duration_since(n, ts) == n - ts

num_minutes_round(d) == TruncDiv(d + 30, SecsPerMin)
\* Duration::num_minutes: whole minutes, truncated toward zero.
num_minutes(d) == TruncDiv(d, SecsPerMin)

num_days_ceil(d) == TruncDiv(d + SecsPerDay - 1, SecsPerDay)
\* Duration::num_days: whole days, truncated toward zero.
num_days(d) == TruncDiv(d, SecsPerDay)

\* Seconds of local wall time of instant t under offset off.
LocalSecs(t, off) == t + off

date_naive_utc(t, off) == t \div SecsPerDay
\* DateTime<Local>::date_naive: the local calendar date, as a day number.
date_naive(t, off) == LocalSecs(t, off) \div SecsPerDay

\* Local time of day, in seconds after local midnight.
SecOfDay(t, off) == LocalSecs(t, off) % SecsPerDay

\* Civil date (proleptic Gregorian) of a day number.
CivilFromDays(days) ==
    LET z   == days + 719468
        era == z \div 146097
        doe == z - era * 146097
        yoe == (doe - doe \div 1460 + doe \div 36524 - doe \div 146096) \div 365
        doy == doe - (365 * yoe + yoe \div 4 - yoe \div 100)
        mp  == (5 * doy + 2) \div 153
        d   == doy - (153 * mp + 2) \div 5 + 1
        m   == IF mp < 10 THEN mp + 3 ELSE mp - 9
        y   == yoe + era * 400 + (IF m <= 2 THEN 1 ELSE 0)
    IN  [year |-> y, month |-> m, day |-> d]

(* --------------------------- chrono: format ---------------------------- *)

Pad2(n) == IF n < 10 THEN "0" \o ToString(n) ELSE ToString(n)

Pad4(n) == IF n < 10 THEN "000" \o ToString(n)
           ELSE IF n < 100 THEN "00" \o ToString(n)
           ELSE IF n < 1000 THEN "0" \o ToString(n)
           ELSE ToString(n)

WeekdayNames == <<"Monday", "Tuesday", "Wednesday", "Thursday",
                  "Friday", "Saturday", "Sunday">>

\* 1970-01-01 was a Thursday.
WeekdayIndex(days) == ((days + 3) % 7) + 1

\* %I: hour of the 12-hour clock, 1..12.
Hour12(h) == IF h % 12 = 0 THEN 12 ELSE h % 12

\* local_ts.format("%I:%M %p")
FormatClock(t, off) ==
    LET h == SecOfDay(t, off) \div SecsPerHour
        m == (SecOfDay(t, off) % SecsPerHour) \div SecsPerMin
    IN  Pad2(Hour12(h)) \o ":" \o Pad2(m) \o (IF h < 12 THEN " AM" ELSE " PM")

\* local_ts.format("%A")
FormatWeekday(t, off) == WeekdayNames[WeekdayIndex(date_naive(t, off))]

\* local_ts.format("%Y-%m-%d")
FormatIso(t, off) ==
    LET c == CivilFromDays(date_naive(t, off))
    IN  Pad4(c.year) \o "-" \o Pad2(c.month) \o "-" \o Pad2(c.day)

\* format!("{} min ago", diff.num_minutes())
FormatMinAgo(d) == ToString(num_minutes(d)) \o " min ago"

(* ----------------------------- rules ----------------------------------- *)

\* The return statements of humanize_time, in source order.
RJustNow == 1
RMinAgo == 2
RClock == 3
RYesterday == 4
RWeekday == 5
RIso == 6

IsJustNow_elapsed(d) == d >= 0 /\ num_minutes(d) < 1
\* Line 30: diff.num_minutes() < 1
IsJustNow(d) == num_minutes(d) < 1

\* Line 34: diff.num_minutes() < 60
IsWithinHour(d) == num_minutes(d) < 60

\* Line 41: local_ts.date_naive() == local_now.date_naive()
IsSameDay(ts, ln, off) == date_naive(ts, off) = date_naive(ln, off)

IsYesterday_next(ts, ln, off) == date_naive(ts, off) = date_naive(ln, off) + 1
\* Line 45: local_ts.date_naive() == local_now.date_naive() - Duration::days(1)
IsYesterday(ts, ln, off) == date_naive(ts, off) = date_naive(ln, off) - 1

IsWithinWeek_inverted(d) == num_days(d) > 7
\* Line 49: diff.num_days() < 7
IsWithinWeek(d) == num_days(d) < 7

\* Lines 38-53 as a function of the timestamp, the duration computed at
\* line 28 and the local time read at line 39.
CalendarRule(ts, d, ln, off) ==
    IF IsSameDay(ts, ln, off) THEN RClock
    ELSE IF IsYesterday(ts, ln, off) THEN RYesterday
    ELSE IF IsWithinWeek(d) THEN RWeekday
    ELSE RIso

RuleLabel(r, ts, d, off) ==
    CASE r = RJustNow   -> "Just now"
      [] r = RMinAgo    -> FormatMinAgo(d)
      [] r = RClock     -> FormatClock(ts, off)
      [] r = RYesterday -> "Yesterday"
      [] r = RWeekday   -> FormatWeekday(ts, off)
      [] r = RIso       -> FormatIso(ts, off)

(* ------------------------- humanize_time ------------------------------- *)

diff == signed_duration_since(now, timestamp)

TimeInit ==
    /\ offset \in Offsets
    /\ \E tod \in TsTimes : timestamp = BaseDay * SecsPerDay + tod - offset
    /\ \E lead \in Leads : clock = timestamp - lead
    /\ pc = "idle"
    /\ now = clock
    /\ local_now = clock
    /\ label = ""
    /\ rule = 0
    /\ prev = 0
    /\ ticks = 0

\* The wall clock advances (the environment; at any point of a call).  It is
\* taken never to run backwards.
Tick ==
    /\ ticks < MaxTicks
    /\ \E s \in Steps : clock' = clock + s
    /\ ticks' = ticks + 1
    /\ UNCHANGED <<offset, timestamp, pc, now, local_now, label, rule, prev>>
    /\ UNCHANGED imgVars

\* Lines 27-36: read the UTC clock, compute diff, apply the minute rules.
HumanizeMinutes ==
    /\ pc = "idle"
    /\ now' = clock
    /\ LET d == signed_duration_since(clock, timestamp)
       IN  IF IsJustNow(d)
           THEN /\ label' = RuleLabel(RJustNow, timestamp, d, offset)
                /\ rule' = RJustNow
                /\ prev' = rule
                /\ pc' = "idle"
           ELSE IF IsWithinHour(d)
           THEN /\ label' = RuleLabel(RMinAgo, timestamp, d, offset)
                /\ rule' = RMinAgo
                /\ prev' = rule
                /\ pc' = "idle"
           ELSE /\ pc' = "calendar"
                /\ UNCHANGED <<label, rule, prev>>
    /\ UNCHANGED <<clock, offset, timestamp, local_now, ticks>>
    /\ UNCHANGED imgVars

\* Lines 38-53: convert to local time, read the local clock, apply the
\* calendar rules.
HumanizeCalendar ==
    /\ pc = "calendar"
    /\ local_now' = clock
    /\ LET r == CalendarRule(timestamp, diff, clock, offset)
       IN  /\ rule' = r
           /\ prev' = rule
           /\ label' = RuleLabel(r, timestamp, diff, offset)
    /\ pc' = "idle"
    /\ UNCHANGED <<clock, offset, timestamp, now, ticks>>
    /\ UNCHANGED imgVars

(* ------------------------ Base64 (STANDARD) ---------------------------- *)

\* A text is a sequence of one-character strings; a byte string a sequence
\* of numbers in 0..255.
B64Alphabet ==
    <<"A","B","C","D","E","F","G","H","I","J","K","L","M","N","O","P",
      "Q","R","S","T","U","V","W","X","Y","Z","a","b","c","d","e","f",
      "g","h","i","j","k","l","m","n","o","p","q","r","s","t","u","v",
      "w","x","y","z","0","1","2","3","4","5","6","7","8","9","+","/">>

IsB64Char(c) == \E i \in 1..64 : B64Alphabet[i] = c

B64Value(c) == (CHOOSE i \in 1..64 : B64Alphabet[i] = c) - 1

\* Number of trailing "=" of a text.
RECURSIVE PadCount(_)
PadCount(txt) ==
    IF Len(txt) > 0 /\ txt[Len(txt)] = "="
    THEN 1 + PadCount(SubSeq(txt, 1, Len(txt) - 1))
    ELSE 0

\* The sextets of the data characters, and the bytes they carry.
SextetAt(data, i) == IF i <= Len(data) THEN B64Value(data[i]) ELSE 0

QuadWord(data, q) ==
    SextetAt(data, 4 * q + 1) * 262144 + SextetAt(data, 4 * q + 2) * 4096
    + SextetAt(data, 4 * q + 3) * 64 + SextetAt(data, 4 * q + 4)

ByteOfWord(w, k) ==
    IF k = 0 THEN w \div 65536
    ELSE IF k = 1 THEN (w \div 256) % 256
    ELSE w % 256

DecodedLen(data) ==
    (Len(data) \div 4) * 3
    + (IF Len(data) % 4 = 2 THEN 1 ELSE IF Len(data) % 4 = 3 THEN 2 ELSE 0)

DecodeData(data) ==
    [j \in 1..DecodedLen(data) |->
        ByteOfWord(QuadWord(data, (j - 1) \div 3), (j - 1) % 3)]

\* The bits of the last symbol that no output byte carries are zero.
TrailingBitsZero(data) ==
    IF Len(data) % 4 = 2 THEN B64Value(data[Len(data)]) % 16 = 0
    ELSE IF Len(data) % 4 = 3 THEN B64Value(data[Len(data)]) % 4 = 0
    ELSE TRUE

b64_decode_lenient(txt) ==
    LET data == SelectSeq(txt, IsB64Char)
        whole == SubSeq(data, 1, 4 * (Len(data) \div 4))
    IN  [ok |-> TRUE, bytes |-> DecodeData(whole)]
\* general_purpose::STANDARD.decode: standard alphabet, canonical padding
\* required, no stray trailing bits.  Ok(bytes) or Err(DecodeError).
b64_decode(txt) ==
    LET p    == PadCount(txt)
        data == SubSeq(txt, 1, Len(txt) - p)
    IN  IF /\ \A i \in 1..Len(data) : IsB64Char(data[i])
           /\ p <= 2
           /\ Len(data) % 4 # 1
           /\ (Len(data) + p) % 4 = 0
           /\ TrailingBitsZero(data)
        THEN [ok |-> TRUE, bytes |-> DecodeData(data)]
        ELSE [ok |-> FALSE, err |-> "DecodeError"]

(* --------------------- image: formats and pixels ----------------------- *)

\* "farbfeld": the magic of the farbfeld format (RGBA, 16 bits, big endian).
FarbfeldMagic == <<102, 97, 114, 98, 102, 101, 108, 100>>

\* Big-endian u32 at byte positions i..i+3.
U32At(b, i) == ((b[i] * 256 + b[i + 1]) * 256 + b[i + 2]) * 256 + b[i + 3]

HasPrefix(b, pre) == Len(b) >= Len(pre) /\ SubSeq(b, 1, Len(pre)) = pre

IsDigit(x) == x >= 48 /\ x <= 57

IsSpace(x) == x \in {9, 10, 13, 32}

\* farbfeld: magic, u32 width, u32 height, then width*height*4 u16 samples.
LoadFarbfeld(b) ==
    IF Len(b) < 16 THEN [ok |-> FALSE, err |-> "ImageError"]
    ELSE LET w == U32At(b, 9)
             h == U32At(b, 13)
         IN  IF Len(b) - 16 < w * h * 8
             THEN [ok |-> FALSE, err |-> "ImageError"]
             ELSE [ok |-> TRUE,
                   image |-> [color |-> "Rgba16", width |-> w, height |-> h,
                              samples |-> [i \in 1..(w * h * 4) |->
                                  b[15 + 2 * i] * 256 + b[16 + 2 * i]]]]

\* Binary PNM with one-digit dimensions and maxval 255:
\* "P5" (grey) or "P6" (RGB), ws, width, ws, height, ws, "255", ws, samples.
LoadPnm(b) ==
    IF /\ Len(b) >= 11
       /\ b[2] \in {53, 54}
       /\ IsSpace(b[3]) /\ IsDigit(b[4]) /\ IsSpace(b[5]) /\ IsDigit(b[6])
       /\ IsSpace(b[7]) /\ SubSeq(b, 8, 10) = <<50, 53, 53>> /\ IsSpace(b[11])
    THEN LET w  == b[4] - 48
             h  == b[6] - 48
             ch == IF b[2] = 53 THEN 1 ELSE 3
         IN  IF Len(b) - 11 < w * h * ch
             THEN [ok |-> FALSE, err |-> "ImageError"]
             ELSE [ok |-> TRUE,
                   image |-> [color |-> IF ch = 1 THEN "L8" ELSE "Rgb8",
                              width |-> w, height |-> h,
                              samples |-> [i \in 1..(w * h * ch) |-> b[11 + i]]]]
    ELSE [ok |-> FALSE, err |-> "ImageError"]

\* image::load_from_memory: sniff the format from the magic bytes, then
\* decode.  Ok(DynamicImage) or Err(ImageError).
load_from_memory(b) ==
    IF HasPrefix(b, FarbfeldMagic) THEN LoadFarbfeld(b)
    ELSE IF HasPrefix(b, <<80>>) THEN LoadPnm(b)
    ELSE [ok |-> FALSE, err |-> "ImageError"]

\* u16 sample to u8 sample.
U16ToU8(x) == (x + 128) \div 257

\* The four RGBA8 bytes of pixel number p (from 0) of an image.
PixelRgba8(im, p) ==
    LET s == im.samples
    IN  CASE im.color = "L8"     -> <<s[p + 1], s[p + 1], s[p + 1], 255>>
          [] im.color = "Rgb8"   -> <<s[3 * p + 1], s[3 * p + 2], s[3 * p + 3], 255>>
          [] im.color = "Rgba16" -> <<U16ToU8(s[4 * p + 1]), U16ToU8(s[4 * p + 2]),
                                      U16ToU8(s[4 * p + 3]), U16ToU8(s[4 * p + 4])>>

to_rgb8(im) ==
    [width |-> im.width, height |-> im.height,
     raw |-> [i \in 1..(im.width * im.height * 3) |->
                 PixelRgba8(im, (i - 1) \div 3)[((i - 1) % 3) + 1]]]
\* DynamicImage::to_rgba8: an RgbaImage (ImageBuffer<Rgba<u8>, Vec<u8>>).
to_rgba8(im) ==
    [width |-> im.width, height |-> im.height,
     raw |-> [i \in 1..(im.width * im.height * 4) |->
                 PixelRgba8(im, (i - 1) \div 4)[((i - 1) % 4) + 1]]]

\* RgbaImage::dimensions
dimensions(buf) == <<buf.width, buf.height>>

\* RgbaImage::into_raw
into_raw(buf) == buf.raw

(* ----------------------- inputs of b64_to_img_data --------------------- *)

\* Base64 text of a byte string.
EncodeChar(b, i) ==
    LET n  == Len(b)
        g  == (i - 1) \div 4
        k  == (i - 1) % 4
        b0 == b[3 * g + 1]
        b1 == IF 3 * g + 2 <= n THEN b[3 * g + 2] ELSE 0
        b2 == IF 3 * g + 3 <= n THEN b[3 * g + 3] ELSE 0
        w  == b0 * 65536 + b1 * 256 + b2
        sx == IF k = 0 THEN w \div 262144
              ELSE IF k = 1 THEN (w \div 4096) % 64
              ELSE IF k = 2 THEN (w \div 64) % 64
              ELSE w % 64
    IN  IF 3 * g + k > n THEN "=" ELSE B64Alphabet[sx + 1]

Encode(b) == [i \in 1..(4 * ((Len(b) + 2) \div 3)) |-> EncodeChar(b, i)]

Seeds == {0, 200}

Sample(seed, i) == (seed + 37 * i) % 256

FarbfeldFile(w, h, seed) ==
    FarbfeldMagic \o <<0, 0, 0, w>> \o <<0, 0, 0, h>>
    \o [i \in 1..(w * h * 8) |-> Sample(seed, i)]

PnmFile(kind, w, h, seed) ==
    <<80, kind, 10, 48 + w, 32, 48 + h, 10, 50, 53, 53, 10>>
    \o [i \in 1..(w * h * (IF kind = 53 THEN 1 ELSE 3)) |-> Sample(seed, i)]

ImageFiles ==
    { FarbfeldFile(w, h, sd) : w \in 1..MaxDim, h \in 1..MaxDim, sd \in Seeds }
    \cup { PnmFile(k, w, h, sd) :
             k \in {53, 54}, w \in 1..MaxDim, h \in 1..MaxDim, sd \in Seeds }

\* Byte strings that are no image: empty, no known magic, a truncated file.
NonImageFiles ==
    { <<>>, <<1, 2, 3>>, <<137, 80, 78>> }
    \cup { SubSeq(f, 1, Len(f) - 1) : f \in ImageFiles }
    \cup { SubSeq(f, 2, Len(f)) : f \in ImageFiles }

\* Texts that are not Base64: a "%" in place of a character, a missing
\* last character, padding in the middle.
Spoil(txt, i) == [j \in 1..Len(txt) |-> IF j = i THEN "%" ELSE txt[j]]

BadTexts ==
    { Spoil(Encode(f), 1) : f \in ImageFiles }
    \cup { Spoil(Encode(f), Len(Encode(f))) : f \in ImageFiles }
    \cup { SubSeq(Encode(f), 1, Len(Encode(f)) - 1) : f \in ImageFiles }
    \cup { <<"%">>, <<"A">>, <<"A", "=", "A", "A">>, <<"A", "B", "=", "=">> }

Inputs ==
    { [kind |-> "image", text |-> Encode(f)] : f \in ImageFiles }
    \cup { [kind |-> "not_image", text |-> Encode(f)] : f \in NonImageFiles }
    \cup { [kind |-> "bad_base64", text |-> t] : t \in BadTexts }

(* ------------------------- b64_to_img_data ----------------------------- *)

NoImage == [color |-> "none", width |-> 0, height |-> 0, samples |-> <<>>]

NoData == [width |-> 0, height |-> 0, bytes |-> <<>>]

ImgIdle ==
    /\ content = <<>>
    /\ input_kind = "none"
    /\ ipc = "idle"
    /\ image_bytes = <<>>
    /\ dynamic_image = NoImage
    /\ pixels = <<>>
    /\ image_data = NoData
    /\ panic = "none"
    /\ called = {}

ImgInit ==
    /\ \E in \in Inputs : content = in.text /\ input_kind = in.kind
    /\ ipc = "decode"
    /\ image_bytes = <<>>
    /\ dynamic_image = NoImage
    /\ pixels = <<>>
    /\ image_data = NoData
    /\ panic = "none"
    /\ called = {}

DecodeStep_lenient ==
    /\ ipc = "decode"
    /\ called' = called \cup {"decode"}
    /\ image_bytes' = b64_decode_lenient(content).bytes
    /\ ipc' = "load"
    /\ UNCHANGED <<panic, content, input_kind, dynamic_image, pixels, image_data>>
    /\ UNCHANGED timeVars
\* Line 69: decode the text and unwrap the result.
DecodeStep ==
    /\ ipc = "decode"
    /\ called' = called \cup {"decode"}
    /\ LET r == b64_decode(content)
       IN  IF r.ok
           THEN /\ image_bytes' = r.bytes
                /\ ipc' = "load"
                /\ UNCHANGED panic
           ELSE /\ panic' = r.err
                /\ ipc' = "panicked"
                /\ UNCHANGED image_bytes
    /\ UNCHANGED <<content, input_kind, dynamic_image, pixels, image_data>>
    /\ UNCHANGED timeVars

\* Line 70: load the image from the bytes and unwrap the result.
LoadStep ==
    /\ ipc = "load"
    /\ called' = called \cup {"load"}
    /\ LET r == load_from_memory(image_bytes)
       IN  IF r.ok
           THEN /\ dynamic_image' = r.image
                /\ ipc' = "convert"
                /\ UNCHANGED panic
           ELSE /\ panic' = r.err
                /\ ipc' = "panicked"
                /\ UNCHANGED dynamic_image
    /\ UNCHANGED <<content, input_kind, image_bytes, pixels, image_data>>
    /\ UNCHANGED timeVars

\* Lines 71-79: convert to RGBA8, take the dimensions and the raw bytes,
\* return the ImageData.
ConvertStep ==
    /\ ipc = "convert"
    /\ called' = called \cup {"convert"}
    /\ LET rgba_image == to_rgba8(dynamic_image)
           wh         == dimensions(rgba_image)
       IN  /\ pixels' = into_raw(rgba_image)
           /\ image_data' = [width |-> wh[1], height |-> wh[2],
                             bytes |-> into_raw(rgba_image)]
    /\ ipc' = "returned"
    /\ UNCHANGED <<content, input_kind, image_bytes, dynamic_image, panic>>
    /\ UNCHANGED timeVars

TimeIdle ==
    /\ offset = 0
    /\ timestamp = BaseDay * SecsPerDay
    /\ clock = timestamp
    /\ pc = "idle"
    /\ now = clock
    /\ local_now = clock
    /\ label = ""
    /\ rule = 0
    /\ prev = 0
    /\ ticks = 0

(* --------------------------- specifications ---------------------------- *)

Init == TimeInit /\ ImgIdle

Next == Tick \/ HumanizeMinutes \/ HumanizeCalendar

\* humanize_time called again and again while the wall clock advances.
Spec == Init /\ [][Next]_vars

InitImg == TimeIdle /\ ImgInit

NextImg == DecodeStep \/ LoadStep \/ ConvertStep

\* One call of b64_to_img_data on each input.
SpecImg == InitImg /\ [][NextImg]_vars

(* ======================= claims: humanize_time ========================= *)

\* A call has returned: label and rule are those of the last call, now is
\* the UTC time it read at line 27.
Returned == pc = "idle" /\ rule # 0

\* The calendar rules ran in the last call: local_now is what line 39 read.
ReturnedCalendar == Returned /\ rule >= RClock

TsDate == date_naive(timestamp, offset)

NowDate == date_naive(now, offset)

C2_JustNow == (Returned /\ diff < SecsPerMin) => label = "Just now"

C2_Witness ==
    /\ Returned /\ diff < 0 /\ TsDate # NowDate
    /\ label = "Just now"

\* C3: for 1 min <= now - timestamp < 60 min the label is "<N> min ago" with
\* N the floor of the elapsed minutes, N in 1..59, whatever the local dates.
C3_MinAgo ==
    (Returned /\ diff >= SecsPerMin /\ diff < SecsPerHour)
    => \E n \in 1..59 :
          /\ n * SecsPerMin <= diff /\ diff < (n + 1) * SecsPerMin
          /\ label = ToString(n) \o " min ago"
          /\ rule = RMinAgo

C3_Witness ==
    /\ Returned /\ diff = SecsPerHour - 1 /\ TsDate = NowDate - 1
    /\ label = "59 min ago"

\* The label the rules give when every comparison uses the one instant n.
SingleNowLabel(ts, n, off) ==
    LET d == signed_duration_since(n, ts)
        r == IF num_minutes(d) < 1 THEN RJustNow
             ELSE IF num_minutes(d) < 60 THEN RMinAgo
             ELSE IF date_naive(ts, off) = date_naive(n, off) THEN RClock
             ELSE IF date_naive(ts, off) = date_naive(n, off) - 1 THEN RYesterday
             ELSE IF num_days(d) < 7 THEN RWeekday
             ELSE RIso
    IN  RuleLabel(r, ts, d, off)

\* The 12-hour clock strings "hh:MM AM|PM" with hh in 01..12.
ClockStrings ==
    { Pad2(h) \o ":" \o Pad2(m) \o sfx : h \in 1..12, m \in 0..59, sfx \in {" AM", " PM"} }

\* C4 as stated: a timestamp at least 60 minutes old whose local date is
\* now's local date is labelled with its local 12-hour clock time
\* "hh:MM AM|PM", hh in 01..12.
C4_AsStated ==
    (Returned /\ diff >= SecsPerHour /\ TsDate = NowDate)
    => (label = FormatClock(timestamp, offset) /\ label \in ClockStrings)

\* The case C4 is about does occur: 14:05 local, read an hour later on the
\* same local day with no clock advance inside the call, gives "02:05 PM".
C4_Reached ==
    /\ Returned /\ diff >= SecsPerHour /\ TsDate = NowDate
    /\ local_now = now
    /\ SecOfDay(timestamp, offset) = 14 * SecsPerHour + 5 * SecsPerMin
    /\ label = "02:05 PM"

\* Weekday of the timestamp's local date, counted from Monday 1970-01-05.
ExpectedWeekday ==
    WeekdayNames[(((timestamp + offset) \div SecsPerDay - 4) % 7) + 1]

\* C5: a timestamp at least 60 minutes old, whose local date is neither
\* now's local date nor the day before, and less than 7 x 24 h old, is
\* labelled with the full weekday name of its local date.
C5_Weekday ==
    (Returned /\ diff >= SecsPerHour /\ diff < 7 * SecsPerDay
        /\ TsDate # NowDate /\ TsDate # NowDate - 1)
    => (label = ExpectedWeekday /\ rule = RWeekday)

\* Elapsed under 7 days while the local dates are 7 days apart.
C5_Witness ==
    /\ Returned /\ diff >= SecsPerHour /\ diff < 7 * SecsPerDay
    /\ NowDate - TsDate = 7
    /\ label = ExpectedWeekday
    /\ label \in {WeekdayNames[i] : i \in 1..7}

IsLeap(y) == (y % 4 = 0 /\ y % 100 # 0) \/ y % 400 = 0

DaysInMonth(y, m) ==
    IF m = 2 THEN (IF IsLeap(y) THEN 29 ELSE 28)
    ELSE IF m \in {4, 6, 9, 11} THEN 30 ELSE 31

\* Day number of a civil date, counted forward from 1970-01-01.
RECURSIVE DaysBeforeYear(_)
DaysBeforeYear(y) ==
    IF y = 1970 THEN 0
    ELSE DaysBeforeYear(y - 1) + (IF IsLeap(y - 1) THEN 366 ELSE 365)

RECURSIVE DaysBeforeMonth(_, _)
DaysBeforeMonth(y, m) ==
    IF m = 1 THEN 0 ELSE DaysBeforeMonth(y, m - 1) + DaysInMonth(y, m - 1)

DaysFromCivil(y, m, d) == DaysBeforeYear(y) + DaysBeforeMonth(y, m) + d - 1

\* The calendar of the years around the model's dates: every civil date
\* paired with its day number and its "YYYY-MM-DD" string.
IsoCalendar ==
    UNION { { <<DaysFromCivil(y, m, d), Pad4(y) \o "-" \o Pad2(m) \o "-" \o Pad2(d)>> :
                d \in 1..DaysInMonth(y, m) } : y \in 2023..2025, m \in 1..12 }

IsoStrings == { p[2] : p \in IsoCalendar }

\* str is "YYYY-MM-DD" of the local date of instant t.
IsIsoDateOf(str, t, off) == <<(t + off) \div SecsPerDay, str>> \in IsoCalendar

\* C6: a timestamp 7 x 24 h old or older is labelled with the ISO date of
\* its local date, and a younger one never gets the ISO-date rule.
C6_IsoDate ==
    /\ (Returned /\ diff >= 7 * SecsPerDay)
          => (rule = RIso /\ IsIsoDateOf(label, timestamp, offset))
    /\ (Returned /\ diff < 7 * SecsPerDay)
          => (rule # RIso /\ label \notin IsoStrings)

C6_Witness ==
    /\ Returned /\ diff >= 7 * SecsPerDay
    /\ IsIsoDateOf(label, timestamp, offset)
    /\ date_naive(timestamp, 0) # date_naive(timestamp, offset)

\* C9 as stated: the label returned is the label the rules give for the one
\* instant read at call start.
C9_AsStated == Returned => label = SingleNowLabel(timestamp, now, offset)

\* The case C9 is about does occur: the clock crosses local midnight by one
\* second between the two reads of a call.
C9_Reached ==
    /\ ReturnedCalendar
    /\ local_now = now + 1
    /\ date_naive(local_now, offset) = NowDate + 1
    /\ label # SingleNowLabel(timestamp, now, offset)

\* C10: over successive calls with an advancing clock the rule that produced
\* the label never moves back in the order Just now, N min ago, clock time,
\* Yesterday, weekday, ISO date.
C10_Monotone == Returned => prev <= rule

C10_Witness == Returned /\ prev = RMinAgo /\ rule = RIso

(* ===================== claims: b64_to_img_data ========================= *)

\* The call is over: it returned an ImageData or it panicked.
Finished == ipc \in {"returned", "panicked"}

Failed == Finished /\ input_kind \in {"bad_base64", "not_image"}

\* C7 as stated: a buffer is returned only when decode and parse both
\* succeed; bad Base64 fails with DecodeError before any image parsing,
\* Base64 of non-image bytes fails with ImageError at the parse; and in both
\* cases control comes back to the caller, carrying the error and no buffer.
C7_AsStated ==
    /\ (ipc = "returned" /\ image_data # NoData) => input_kind = "image"
    /\ (Finished /\ input_kind = "bad_base64")
          => (panic = "DecodeError" /\ "load" \notin called)
    /\ (Finished /\ input_kind = "not_image")
          => (panic = "ImageError" /\ "convert" \notin called)
    /\ Failed => (ipc = "returned" /\ image_data = NoData)

\* C7 amended: as above, except that a failing call does not come back to
\* its caller: it panics at the unwrap with the error as payload, and no
\* buffer, partial or whole, exists.
C7_Panics ==
    /\ (ipc = "returned" /\ image_data # NoData) => input_kind = "image"
    /\ (Finished /\ input_kind = "image") => ipc = "returned"
    /\ (Finished /\ input_kind = "bad_base64")
          => (panic = "DecodeError" /\ "load" \notin called)
    /\ (Finished /\ input_kind = "not_image")
          => (panic = "ImageError" /\ "convert" \notin called)
    /\ Failed => (ipc = "panicked" /\ image_data = NoData /\ pixels = <<>>)

C7_Witness ==
    /\ ipc = "panicked" /\ input_kind = "bad_base64"
    /\ \E i \in 1..Len(content) : content[i] = "%"
    /\ panic = "DecodeError" /\ called = {"decode"}
    /\ image_data = NoData

\* C8: every returned buffer has exactly width * height * 4 bytes, width
\* and height being the returned dimensions, those of the source image,
\* whatever its colour model and bit depth.
C8_BufferLength ==
    ipc = "returned"
    => /\ Len(image_data.bytes) = image_data.width * image_data.height * 4
       /\ image_data.width = dynamic_image.width
       /\ image_data.height = dynamic_image.height
       /\ image_data.width >= 1 /\ image_data.height >= 1
       /\ \A i \in 1..Len(image_data.bytes) : image_data.bytes[i] \in 0..255

\* A 1x1 grey image: width 1, height 1, four bytes.
C8_Witness ==
    /\ ipc = "returned"
    /\ dynamic_image.color = "L8"
    /\ image_data.width = 1 /\ image_data.height = 1
    /\ Len(image_data.bytes) = 4
    /\ image_data.bytes[4] = 255

====
